---- MODULE Spec2Model ----
(***************************************************************************)
(* SilliReminder: the boundary-crossing notification scheduler of          *)
(* src/src/app.rs over the SQLite reminder store of src/src/db_operations. *)
(*                                                                         *)
(* One eframe frame (SilliReminder::update) is one atomic action: the UI   *)
(* thread is the only thread that touches the application object and the   *)
(* database connection.  Every frame leaves the events it performed, in    *)
(* program order, in the history variable frameLog.                        *)
(*                                                                         *)
(* Calendar dates are day numbers 0..MaxDay.  In the database a date is    *)
(* the text chrono writes for "%Y-%m-%d": fixed width, zero padded.  The   *)
(* model keeps that shape as a two digit text, so that ORDER BY `date`     *)
(* compares texts and the detector works on the parsed value.              *)
(* Instants are only ever compared with each other, so next_boundary_check *)
(* is kept relative to the instant of the most recent frame.               *)
(***************************************************************************)
EXTENDS Integers, Sequences, FiniteSets, TLC

\* ------------------------------------------------------------ bounds
\* Identifiers the store ever hands out (AUTOINCREMENT never reuses one).
MaxId == 2
\* Calendar window of the wall clock: days 0..MaxDay.
MaxDay == 11
\* The day the process is started on (selected_date starts there).
StartDay == 7
\* Inputs of the pure urgency classifier: days -ClassifySpan..ClassifySpan.
ClassifySpan == 10
\* How far ahead of the start day the reminder of the scenario is due.
DueAhead == 10
\* Commands of the tray thread waiting in the channel.
MaxCommands == 2

\* ------------------------------------------------------------ program constants
ForegroundSecs == 10
BackgroundSecs == 60
MaxLevel == 3
IgnoreCloseFrames == 30
\* BoundaryNotification.level is a u8.
U8Max == 255

\* The due date of the reminder an earlier run left in the table.
EarlierDue == StartDay + 2
\* The days on which the wall clock is read.  A reminder added on the start
\* day is due that day; seen from the eve of the start day it is due in 1 day
\* and the earlier reminder in 3 days.  On day 0 the two are further away, on
\* the last day both are overdue.
Days == {0, StartDay - 1, StartDay, MaxDay}
\* What the user types into the note field: a text is a sequence of characters.
TypedNotes == {<<"a">>}
\* Time between two frames, in seconds.
Elapsed == {0, BackgroundSecs}

Min(a, b) == IF a <= b THEN a ELSE b
Max(a, b) == IF a >= b THEN a ELSE b
Range(s) == {s[i] : i \in DOMAIN s}

VARIABLES
    \* SilliReminder (app.rs:31-45)
    db,                  \* TRUE: Some(connection), FALSE: None
    background,
    allow_close,
    ignore_close_frames,
    tray_rx,             \* commands sent by the tray thread, not yet drained
    selected_date,
    note_input,
    notifications,       \* VecDeque<BoundaryNotification>
    next_boundary_check, \* seconds after the most recent frame
    \* environment
    store,               \* table Reminder: id -> [date, note, notified_level]
    nextId,              \* sqlite_sequence + 1
    today,               \* Local::now().date_naive()
    running,             \* the eframe event loop has not closed the viewport
    close_sent,          \* ViewportCommand::Close sent and not yet acted upon
    \* history
    frameLog,            \* events of the most recent frame, in program order
    enqueued,            \* <<id, level>> pairs pushed so far, of stored reminders
    deleted,             \* ids removed by a successful delete_reminder
    maxWritten,          \* id -> highest level a pass wrote successfully (0 if
                         \* none, and once the reminder is deleted)
    dropped,             \* <<id, level>> pairs the sink dropped, of stored reminders
    frameIn,             \* whether the most recent step is a frame, and its
                         \* inputs: dt, close_requested, ui
    sincePass,           \* seconds from the latest detector run past the time
                         \* gate to the most recent frame (capped; the cap: none)
    unlisted,            \* ids inserted and not yet listed by a detector pass
    goneTold,            \* <<date, note>> of the reminders deleted after a
                         \* pass had enqueued a notification for them
    \* classifier harness
    clToday, clDue, clLevel,
    clColor,             \* the colour bucket of the row for the same dates
    \* severity harness
    sevLevel, sevKind,
    \* the process and what main() works on (main.rs:31-75)
    pc,                  \* "off", "returned" (main returned before run_native)
                         \* or "app" (run_native was called)
    args,                \* which of --autostart, --background were given
    saved,               \* the settings file: whether it exists, and its text
    entry,               \* the Run key holds the SilliReminder value
    system_start,        \* main's system_start
    mainLog,             \* the calls of the latest main(), in program order
    \* the tray thread and its delivery queue (tray/win32.rs)
    NOTIFY_QUEUE,        \* Mutex<VecDeque<QueuedNotification>>: their numbers
    TRAY_HWND,           \* AtomicIsize: 0 until the tray window is stored
    trayMsgs,            \* WM_TRAY_NOTIFY messages posted and not yet retrieved
    trayPc,              \* the tray thread: "off", "start", "created", "loop",
                         \* "notify" (in wnd_proc for WM_TRAY_NOTIFY), "ended"
    uiPc,                \* the UI thread in enqueue_notification: "idle" or
                         \* "pushed" (past the push_back, before the load)
    accepted,            \* notifications pushed so far (numbered 1, 2, ...)
    shown,               \* the notifications shown, in the order shown
    missed               \* calls that returned without posting a message

vars == <<db, background, allow_close, ignore_close_frames, tray_rx,
          selected_date, note_input, notifications, next_boundary_check,
          store, nextId, today, running, close_sent,
          frameLog, enqueued, deleted, maxWritten, dropped, frameIn, sincePass,
          unlisted, goneTold,
          clToday, clDue, clLevel, clColor, sevLevel, sevKind,
          pc, args, saved, entry, system_start, mainLog,
          NOTIFY_QUEUE, TRAY_HWND, trayMsgs, trayPc, uiPc, accepted, shown,
          missed>>

appVars == <<db, background, allow_close, ignore_close_frames, tray_rx,
             selected_date, note_input, notifications, next_boundary_check,
             store, nextId, today, running, close_sent,
             frameLog, enqueued, deleted, maxWritten, dropped, frameIn,
             sincePass, unlisted, goneTold>>

clVars == <<clToday, clDue, clLevel, clColor>>

mainVars == <<pc, args, saved, entry, system_start, mainLog>>

trayVars == <<NOTIFY_QUEUE, TRAY_HWND, trayMsgs, trayPc, uiPc, accepted, shown,
              missed>>

sevVars == <<sevLevel, sevKind>>

\* ------------------------------------------------------------ dates as text
\* NaiveDate::format("%Y-%m-%d"): fixed width, zero padded.
FormatDate(d) == <<d \div 10, d % 10>>

\* parse_db_date: NaiveDate::parse_from_str(text, "%Y-%m-%d").
parse_db_date(t) == t[1] * 10 + t[2]

\* SQLite's comparison of two TEXT values (BINARY collation).
RECURSIVE TextLess(_, _)
TextLess(s, t) ==
    IF t = <<>> THEN FALSE
    ELSE IF s = <<>> THEN TRUE
    ELSE IF Head(s) # Head(t) THEN Head(s) < Head(t)
    ELSE TextLess(Tail(s), Tail(t))

\* ------------------------------------------------------------ classifier
urgency_level_not_overdue(t, date) ==
    LET days_until == date - t
    IN  IF days_until < 0 THEN 0
        ELSE IF days_until <= 1 THEN 3
        ELSE IF days_until <= 3 THEN 2
        ELSE IF days_until <= 7 THEN 1
        ELSE 0

urgency_level_off_by_one(t, date) ==
    LET days_until == date - t
    IN  IF days_until < 1 THEN 3
        ELSE IF days_until < 3 THEN 2
        ELSE IF days_until < 7 THEN 1
        ELSE 0

urgency_level(t, date) ==
    LET days_until == date - t
    IN  IF days_until <= 1 THEN 3
        ELSE IF days_until <= 3 THEN 2
        ELSE IF days_until <= 7 THEN 1
        ELSE 0

\* ------------------------------------------------------------ store
\* ORDER BY `date` ASC, `id` ASC.
RowBeforeById(st, a, b) == a < b

RowBefore(st, a, b) ==
    \/ TextLess(st[a].date, st[b].date)
    \/ st[a].date = st[b].date /\ a < b

RECURSIVE OrderedIds(_, _)
OrderedIds(st, ids) ==
    IF ids = {} THEN <<>>
    ELSE LET first == CHOOSE a \in ids : \A b \in ids \ {a} : RowBefore(st, a, b)
         IN  <<first>> \o OrderedIds(st, ids \ {first})

\* The Reminder built from one row: the date parsed, the level clamped.
ReadRowRaw(st, id) ==
    [id |-> id,
     date |-> parse_db_date(st[id].date),
     note |-> st[id].note,
     notified_level |-> st[id].notified_level]

ReadRowNoLevel(st, id) ==
    [id |-> id,
     date |-> parse_db_date(st[id].date),
     note |-> st[id].note,
     notified_level |-> 0]

ReadRow(st, id) ==
    [id |-> id,
     date |-> parse_db_date(st[id].date),
     note |-> st[id].note,
     notified_level |-> Max(0, Min(st[id].notified_level, MaxLevel))]

list_reminders(st) ==
    LET ids == OrderedIds(st, DOMAIN st)
    IN  [i \in 1..Len(ids) |-> ReadRow(st, ids[i])]

\* (an INSERT that stores the new row as announced at every level)
insert_as_announced(st, id, date, note) ==
    [i \in DOMAIN st \cup {id} |->
        IF i = id
        THEN [date |-> FormatDate(date), note |-> note,
              notified_level |-> MaxLevel]
        ELSE st[i]]

\* INSERT: the new row gets the next identifier and the column default 0.
insert_reminder(st, id, date, note) ==
    [i \in DOMAIN st \cup {id} |->
        IF i = id
        THEN [date |-> FormatDate(date), note |-> note, notified_level |-> 0]
        ELSE st[i]]

\* UPDATE ... WHERE id: no row, no change.
set_level_lost(st, id, level) == st

set_level_everywhere(st, id, level) ==
    [i \in DOMAIN st |-> [st[i] EXCEPT !.notified_level = Min(level, MaxLevel)]]

\* REPLACE INTO instead of UPDATE: the row is written anew, its note lost.
set_level_replacing_row(st, id, level) ==
    IF id \in DOMAIN st
    THEN [st EXCEPT ![id] = [date |-> @.date, note |-> <<>>,
                             notified_level |-> Min(level, MaxLevel)]]
    ELSE st

set_reminder_notified_level(st, id, level) ==
    IF id \in DOMAIN st
    THEN [st EXCEPT ![id].notified_level = Min(level, MaxLevel)]
    ELSE st

\* DELETE ... WHERE id.
delete_reminder(st, id) == [i \in DOMAIN st \ {id} |-> st[i]]

\* ------------------------------------------------------------ events
\* One entry of frameLog.  op is "list" (the detector's list_reminders),
\* "enq" (push_back), "write" (set_reminder_notified_level), "notify"
\* (tray::notify), "ui_list", "insert" or "delete" (the UI's store calls).
Event(op, id, date, note, level, ok, kind, rows) ==
    [op |-> op, id |-> id, date |-> date, note |-> note, level |-> level,
     ok |-> ok, kind |-> kind, rows |-> rows]

Ids(rows) == [i \in DOMAIN rows |-> rows[i].id]

\* A list event carries the identifiers of the rows read, in the order read.
ListEvent(op, ok, rows) == Event(op, 0, 0, <<>>, 0, ok, "-", Ids(rows))
EnqEvent(n) == Event("enq", n.id, n.date, n.note, n.level, TRUE, "-", <<>>)
WriteEvent(r, level, ok) == Event("write", r.id, r.date, r.note, level, ok, "-", <<>>)
NotifyEvent(n, kind) == Event("notify", n.id, n.date, n.note, n.level, TRUE, kind, <<>>)
StoreEvent(op, id, date, note, ok) == Event(op, id, date, note, 0, ok, "-", <<>>)

\* ------------------------------------------------------------ detector
\* BoundaryNotification; id is history only (the struct has no such field).
BoundaryNotification(r, level) ==
    [id |-> r.id, date |-> r.date, note |-> r.note, level |-> level]

\* for level in (previous_level + 1)..=current_level, level 0 skipped.
EnqueueHighestOnly(r, level, current_level) ==
    IF level > current_level THEN <<>>
    ELSE <<BoundaryNotification(r, current_level)>>

RECURSIVE EnqueueDescending(_, _, _)
EnqueueDescending(r, level, current_level) ==
    IF level > current_level THEN <<>>
    ELSE EnqueueDescending(r, level + 1, current_level)
         \o (IF level = 0 THEN <<>> ELSE <<BoundaryNotification(r, level)>>)

RECURSIVE EnqueueLevels(_, _, _)
EnqueueLevels(r, level, current_level) ==
    IF level > current_level THEN <<>>
    ELSE (IF level = 0 THEN <<>> ELSE <<BoundaryNotification(r, level)>>)
         \o EnqueueLevels(r, level + 1, current_level)

\* Whether the row is left alone: current_level <= previous_level.
NeverAnnounced(current_level, previous_level) == FALSE

AlreadyAnnounced(current_level, previous_level) == current_level <= previous_level

\* What one reminder that crossed a boundary adds: its notifications, then
\* the write of its level, which fails or not.
AnnounceWriteFirst(acc, r, current_level, pushed, ok) ==
    [notifications |-> acc.notifications \o pushed,
     store |-> IF ok
               THEN set_reminder_notified_level(acc.store, r.id, current_level)
               ELSE acc.store,
     log |-> acc.log
             \o <<WriteEvent(r, current_level, ok)>>
             \o [i \in DOMAIN pushed |-> EnqEvent(pushed[i])]]

AnnounceAlwaysStored(acc, r, current_level, pushed, ok) ==
    [notifications |-> acc.notifications \o pushed,
     store |-> set_reminder_notified_level(acc.store, r.id, current_level),
     log |-> acc.log
             \o [i \in DOMAIN pushed |-> EnqEvent(pushed[i])]
             \o <<WriteEvent(r, current_level, ok)>>]

Announce(acc, r, current_level, pushed, ok) ==
    [notifications |-> acc.notifications \o pushed,
     store |-> IF ok
               THEN set_reminder_notified_level(acc.store, r.id, current_level)
               ELSE acc.store,
     log |-> acc.log
             \o [i \in DOMAIN pushed |-> EnqEvent(pushed[i])]
             \o <<WriteEvent(r, current_level, ok)>>]

\* The body of `for r in reminders` for one reminder.  acc carries the queue,
\* the table and the events so far; the write fails for the ids in failIds.
ProcessReminder(acc, r, t, failIds) ==
    LET current_level == urgency_level(t, r.date)
        previous_level == Min(r.notified_level, 3)
    IN  IF AlreadyAnnounced(current_level, previous_level) THEN acc
        ELSE Announce(acc, r, current_level,
                      EnqueueLevels(r, previous_level + 1, current_level),
                      r.id \notin failIds)

\* `for r in reminders`: the body once for each reminder, in list order.
\* (The CHOOSE only binds the state after the first reminder to a value.)
RECURSIVE CheckReminders(_, _, _, _)
CheckReminders(acc, reminders, t, failIds) ==
    IF reminders = <<>> THEN acc
    ELSE CHOOSE res \in
             {CheckReminders(nxt, rest, t, failIds) :
                  nxt \in {ProcessReminder(acc, r, t, failIds) :
                               r \in {Head(reminders)}},
                  rest \in {Tail(reminders)}} : TRUE

\* `let Some(db) = &self.db else { return }`
DbAssumed(d) == TRUE

DbAvailable(d) == d

\* maybe_check_boundary_notifications.  now is measured from the previous
\* frame, like next_boundary_check.  gate is "closed" (too early), "nodb",
\* "listfail" or "ran".
CheckIntervalShort(bg) == ForegroundSecs

CheckInterval(bg) == IF bg THEN BackgroundSecs ELSE ForegroundSecs

\* A detector that schedules the next check only once the rows were listed.
check_retry_at_once(now, bg, in) ==
    LET interval == CheckInterval(bg)
        start == [notifications |-> notifications, store |-> store, log |-> <<>>]
        reminders == list_reminders(store)
    IN  IF now < next_boundary_check
        THEN start @@ [gate |-> "closed", next |-> next_boundary_check]
        ELSE IF ~DbAvailable(db)
        THEN start @@ [gate |-> "nodb", next |-> now + interval]
        ELSE IF in.list_fails
        THEN [start EXCEPT !.log = <<ListEvent("list", FALSE, <<>>)>>]
             @@ [gate |-> "listfail", next |-> now]
        ELSE CheckReminders(
                 [start EXCEPT !.log = <<ListEvent("list", TRUE, reminders)>>],
                 reminders, today, in.write_fails)
             @@ [gate |-> "ran", next |-> now + interval]

\* A detector placed after the background early return: no pass while hidden.
check_foreground_only(now, bg, in) ==
    LET interval == CheckInterval(bg)
        start == [notifications |-> notifications, store |-> store, log |-> <<>>]
        reminders == list_reminders(store)
    IN  IF now < next_boundary_check \/ bg
        THEN start @@ [gate |-> "closed", next |-> next_boundary_check]
        ELSE IF ~DbAvailable(db)
        THEN start @@ [gate |-> "nodb", next |-> now + interval]
        ELSE IF in.list_fails
        THEN [start EXCEPT !.log = <<ListEvent("list", FALSE, <<>>)>>]
             @@ [gate |-> "listfail", next |-> now + interval]
        ELSE CheckReminders(
                 [start EXCEPT !.log = <<ListEvent("list", TRUE, reminders)>>],
                 reminders, today, in.write_fails)
             @@ [gate |-> "ran", next |-> now + interval]

maybe_check_boundary_notifications(now, bg, in) ==
    LET interval == CheckInterval(bg)
        start == [notifications |-> notifications, store |-> store, log |-> <<>>]
        reminders == list_reminders(store)
    IN  IF now < next_boundary_check
        THEN start @@ [gate |-> "closed", next |-> next_boundary_check]
        ELSE IF ~DbAvailable(db)
        THEN start @@ [gate |-> "nodb", next |-> now + interval]
        ELSE IF in.list_fails
        THEN [start EXCEPT !.log = <<ListEvent("list", FALSE, <<>>)>>]
             @@ [gate |-> "listfail", next |-> now + interval]
        ELSE CheckReminders(
                 [start EXCEPT !.log = <<ListEvent("list", TRUE, reminders)>>],
                 reminders, today, in.write_fails)
             @@ [gate |-> "ran", next |-> now + interval]

\* ------------------------------------------------------------ dispatcher
NotificationKindFromZero(level) ==
    IF level <= 1 THEN "Info" ELSE IF level = 2 THEN "Warning" ELSE "Error"

NotificationKind(level) ==
    IF level = 1 THEN "Info" ELSE IF level = 2 THEN "Warning" ELSE "Error"

\* tray::notify: the notification goes to the tray thread's queue when there
\* is one (up); otherwise the call does nothing.  ok records which.
notify(n, kind, up) == [NotifyEvent(n, kind) EXCEPT !.ok = up]

\* while let Some(n) = pop_front() { notify(title, body, kind) }: what is left
\* of the queue and the sink calls made, after the calls in log.
RECURSIVE DispatchFromBack(_, _, _)
DispatchFromBack(q, log, up) ==
    IF q = <<>> THEN [notifications |-> q, log |-> log]
    ELSE DispatchFromBack(
             SubSeq(q, 1, Len(q) - 1),
             Append(log, notify(q[Len(q)], NotificationKind(q[Len(q)].level), up)),
             up)

\* if let Some(n) = pop_front(): one notification per frame.
DispatchOnePerFrame(q, log, up) ==
    IF q = <<>> THEN [notifications |-> q, log |-> log]
    ELSE [notifications |-> Tail(q),
          log |-> Append(log, notify(Head(q), NotificationKind(Head(q).level), up))]

\* A dispatcher that keeps what the sink did not take.
RECURSIVE DispatchKeepDropped(_, _, _)
DispatchKeepDropped(q, log, up) ==
    IF q = <<>> \/ ~up THEN [notifications |-> q, log |-> log]
    ELSE DispatchKeepDropped(
             Tail(q),
             Append(log, notify(Head(q), NotificationKind(Head(q).level), up)),
             up)

RECURSIVE dispatch_notifications_to_tray(_, _, _)
dispatch_notifications_to_tray(q, log, up) ==
    IF q = <<>> THEN [notifications |-> q, log |-> log]
    ELSE dispatch_notifications_to_tray(
             Tail(q),
             Append(log, notify(Head(q), NotificationKind(Head(q).level), up)),
             up)

\* ------------------------------------------------------------ window
\* A show_window that opens no suppression window for stale close requests.
show_window_at_once(w) ==
    [w EXCEPT !.allow_close = FALSE, !.background = FALSE, !.close_sent = FALSE]

show_window(w) ==
    [w EXCEPT !.allow_close = FALSE, !.background = FALSE,
              !.ignore_close_frames = IgnoreCloseFrames, !.close_sent = FALSE]

\* (an exit_app that only sends ViewportCommand::Close)
exit_app_close_only(w) == [w EXCEPT !.close_sent = TRUE]

exit_app(w) == [w EXCEPT !.allow_close = TRUE, !.close_sent = TRUE]

stay_in_window(w) == w

hide_to_tray(w) == [w EXCEPT !.background = TRUE]

RECURSIVE ApplyCommands(_, _)
ApplyCommands(w, cmds) ==
    IF cmds = <<>> THEN w
    ELSE ApplyCommands(IF Head(cmds) = "Open" THEN show_window(w) ELSE exit_app(w),
                       Tail(cmds))

\* ------------------------------------------------------------ UI
\* (the colour thresholds taken inclusive)
reminder_color_inclusive(t, date) ==
    LET days_until == date - t
    IN  IF days_until >= 7 THEN "text_color"
        ELSE IF days_until >= 3 THEN "hyperlink_color"
        ELSE IF days_until >= 1 THEN "warn_fg_color"
        ELSE "error_fg_color"

\* ui_planed, the colour of a row: which entry of ui.visuals() is used for
\* the reminder due on date when the day is t.
reminder_color(t, date) ==
    LET days_until == date - t
    IN  IF days_until > 7 THEN "text_color"
        ELSE IF days_until > 3 THEN "hyperlink_color"
        ELSE IF days_until > 1 THEN "warn_fg_color"
        ELSE "error_fg_color"

\* str::trim on a text: leading and trailing white space removed (of the
\* characters with the White_Space property the model has space and tab).
Whitespace == {" ", "\t"}

RECURSIVE TrimStart(_)
TrimStart(s) ==
    IF s # <<>> /\ Head(s) \in Whitespace THEN TrimStart(Tail(s)) ELSE s

RECURSIVE TrimEnd(_)
TrimEnd(s) ==
    IF s # <<>> /\ s[Len(s)] \in Whitespace
    THEN TrimEnd(SubSeq(s, 1, Len(s) - 1))
    ELSE s

NoTrim(s) == s

Trim(s) == TrimEnd(TrimStart(s))

\* What the user does in one frame: nothing, typing a text into the note
\* field, picking a date, clicking the add button (typed: with the note typed
\* in the same frame, which the TextEdit stores before the click is handled)
\* or clicking the delete button of a row.
NoUi == [kind |-> "none", typed |-> FALSE, note |-> <<>>, date |-> 0, id |-> 0]
UiEvents(notes, dates) ==
    {NoUi}
    \cup {[NoUi EXCEPT !.kind = "type", !.typed = TRUE, !.note = n] : n \in notes}
    \cup {[NoUi EXCEPT !.kind = "pick", !.date = d] : d \in dates}
    \cup {[NoUi EXCEPT !.kind = "add"]}
    \cup {[NoUi EXCEPT !.kind = "add", !.typed = TRUE, !.note = n] : n \in notes}
    \cup {[NoUi EXCEPT !.kind = "delete", !.id = i] : i \in 1..MaxId}

\* The frames in which the user types the note and clicks add at once.
QuickUiEvents(notes) == {e \in UiEvents(notes, {}) : e.kind # "type"}

\* The identifier INSERT assigns with AUTOINCREMENT: above every one ever used.
ReusedRowId(st, next) ==
    IF DOMAIN st = {} THEN 1
    ELSE (CHOOSE a \in DOMAIN st : \A b \in DOMAIN st : b <= a) + 1

NewRowId(st, next) == next

\* ui_sections: the date picker, the note field and the add button.
ui_sections(ui, st, next, in) ==
    LET date == IF ui.kind = "pick" THEN ui.date ELSE selected_date
        typed == IF ui.typed THEN ui.note ELSE note_input
        note == Trim(typed)
        id == NewRowId(st, next)
        same == [selected_date |-> date, note_input |-> typed, store |-> st,
                 nextId |-> next, log |-> <<>>]
    IN  IF ui.kind # "add" \/ ~db \/ note = <<>> THEN same
        ELSE IF in.ui_write_fails
        THEN [same EXCEPT !.log = <<StoreEvent("insert", 0, date, note, FALSE)>>]
        ELSE [same EXCEPT !.note_input = <<>>,
                          !.store = insert_reminder(st, id, date, note),
                          !.nextId = Max(next, id) + 1,
                          !.log = <<StoreEvent("insert", id, date, note, TRUE)>>]

\* ui_planed: the list of rows, each with its delete button.
ui_planed(ui, st, in) ==
    LET rows == list_reminders(st)
        clicked == ui.kind = "delete" /\ ui.id \in DOMAIN st
    IN  IF ~db THEN [store |-> st, log |-> <<>>]
        ELSE IF in.ui_list_fails
        THEN [store |-> st, log |-> <<ListEvent("ui_list", FALSE, <<>>)>>]
        ELSE IF ~clicked
        THEN [store |-> st, log |-> <<ListEvent("ui_list", TRUE, rows)>>]
        ELSE IF in.ui_write_fails
        THEN [store |-> st,
              log |-> <<ListEvent("ui_list", TRUE, rows),
                        StoreEvent("delete", ui.id, 0, <<>>, FALSE)>>]
        ELSE [store |-> delete_reminder(st, ui.id),
              log |-> <<ListEvent("ui_list", TRUE, rows),
                        StoreEvent("delete", ui.id, 0, <<>>, TRUE)>>]

\* ui_main: ui_sections, then ui_planed on the table ui_sections left.
ui_main(ui, st, next, in) ==
    LET s == ui_sections(ui, st, next, in)
        p == ui_planed(ui, s.store, in)
    IN  [s EXCEPT !.store = p.store, !.log = s.log \o p.log]

\* ------------------------------------------------------------ history
Events(log, op) == {i \in DOMAIN log : log[i].op = op}
Enqueues(log) == {<<log[i].id, log[i].level>> : i \in Events(log, "enq")}
WritesOk(log) == {log[i].id : i \in {j \in Events(log, "write") : log[j].ok}}
WritesFailed(log) == {log[i].id : i \in {j \in Events(log, "write") : ~log[j].ok}}
Deleted(log) == {log[i].id : i \in {j \in Events(log, "delete") : log[j].ok}}
Inserted(log) == {log[i].id : i \in {j \in Events(log, "insert") : log[j].ok}}
Drops(log) ==
    {<<log[i].id, log[i].level>> : i \in {j \in Events(log, "notify") : ~log[j].ok}}

\* The ids a detector pass listed in log.
PassRows(log) == UNION {Range(log[i].rows) : i \in Events(log, "list")}

\* The highest level written successfully for id in log, at least m.
HighestWritten(log, id, m) ==
    LET ls == {log[i].level : i \in {j \in Events(log, "write") :
                                        log[j].ok /\ log[j].id = id}}
    IN  IF ls = {} THEN m ELSE Max(m, CHOOSE l \in ls : \A k \in ls : k <= l)

\* ------------------------------------------------------------ one frame
\* The inputs of one frame: the time since the previous frame, what the
\* viewport reports, what the user does, and which store calls fail.
Crossing ==
    {i \in DOMAIN store :
        urgency_level(today, ReadRow(store, i).date) > ReadRow(store, i).notified_level}

PassFaults ==
    {[list_fails |-> FALSE, write_fails |-> S] : S \in SUBSET Crossing}
    \cup {[list_fails |-> TRUE, write_fails |-> {}]}

UiFaults(ui) ==
    IF ui.kind \in {"add", "delete"}
    THEN {[ui_list_fails |-> FALSE, ui_write_fails |-> f] : f \in BOOLEAN}
    ELSE {[ui_list_fails |-> FALSE, ui_write_fails |-> FALSE]}

\* Before the first frame: no inputs yet, no detector run yet.
NoFrame == [frame |-> FALSE, dt |-> 0, close_requested |-> FALSE, ui |-> NoUi]
NoPass == BackgroundSecs

\* The history the events of one frame leave.
History(log) ==
    \E gone \in {Deleted(log)} :
        /\ frameLog' = log
        /\ enqueued' = {e \in enqueued \cup Enqueues(log) : e[1] \notin gone}
        /\ dropped' = {e \in dropped \cup Drops(log) : e[1] \notin gone}
        /\ deleted' = deleted \cup gone
        /\ unlisted' = ((unlisted \ PassRows(log)) \cup Inserted(log)) \ gone
        /\ goneTold' = goneTold \cup
               {<<store[i].date, store[i].note>> :
                    i \in {j \in gone : \E e \in enqueued \cup Enqueues(log) :
                                            e[1] = j}}
        /\ maxWritten' = [i \in DOMAIN maxWritten |->
                             IF i \in gone THEN 0
                             ELSE HighestWritten(log, i, maxWritten[i])]

\* SilliReminder::update.
Update(dt, close_requested, ui, pf, uf) ==
    LET in == pf @@ uf
        w0 == [allow_close |-> allow_close, background |-> background,
               ignore_close_frames |-> ignore_close_frames,
               close_sent |-> close_sent]
        w1 == ApplyCommands(w0, tray_rx)
        w2 == [w1 EXCEPT !.ignore_close_frames = IF @ > 0 THEN @ - 1 ELSE @]
        intercept == ~w2.allow_close /\ ~w2.background /\ close_requested
        w3 == IF intercept /\ w2.ignore_close_frames = 0 THEN hide_to_tray(w2) ELSE w2
        w4 == IF intercept THEN [w3 EXCEPT !.close_sent = FALSE] ELSE w3
    IN  /\ running
        /\ close_sent => close_requested
        /\ w4.background => ui = NoUi
        /\ ui.kind = "delete" => ui.id \in DOMAIN store
        /\ ui.kind = "add" => nextId <= MaxId
        /\ allow_close' = w4.allow_close
        /\ background' = w4.background
        /\ ignore_close_frames' = w4.ignore_close_frames
        /\ close_sent' = w4.close_sent
        /\ tray_rx' = <<>>
        /\ running' = (intercept \/ ~close_requested)
        /\ \E chk \in {maybe_check_boundary_notifications(dt, w1.background, in)} :
           \E dsp \in {dispatch_notifications_to_tray(chk.notifications, <<>>,
                                                      in.sink_up)} :
           \E gui \in {IF w4.background
                       THEN [selected_date |-> selected_date,
                             note_input |-> note_input, store |-> chk.store,
                             nextId |-> nextId, log |-> <<>>]
                       ELSE ui_main(ui, chk.store, nextId, in)} :
               /\ next_boundary_check' = Max(chk.next - dt, 0)
               /\ sincePass' = IF chk.gate = "closed"
                                THEN Min(sincePass + dt, NoPass)
                                ELSE 0
               /\ notifications' = dsp.notifications
               /\ store' = gui.store
               /\ nextId' = gui.nextId
               /\ selected_date' = gui.selected_date
               /\ note_input' = gui.note_input
               /\ \E log \in {chk.log \o dsp.log \o gui.log} : History(log)
        /\ frameIn' = [frame |-> TRUE, dt |-> dt,
                       close_requested |-> close_requested, ui |-> ui]
        /\ UNCHANGED <<db, today, clVars, sevVars, mainVars, trayVars>>

\* One frame of the event loop, its inputs drawn from the given sets, with
\* the store calls failing or not.
FrameOf(elapsed, closes, uis, sinks) ==
    \E dt \in elapsed, close_requested \in closes, ui \in uis, up \in sinks :
        \E pf \in (IF dt >= next_boundary_check /\ db
                   THEN PassFaults
                   ELSE {[list_fails |-> FALSE, write_fails |-> {}]}),
           uf \in UiFaults(ui) :
            Update(dt, close_requested, ui, pf @@ [sink_up |-> up], uf)

\* The add clicks made with a text in the note field.
FilledClicks(uis) == {e \in uis : e.kind = "add" => (e.typed \/ note_input # <<>>)}

\* A frame while the user leaves the window and the date picker alone and
\* clicks add only with a text in the note field; the tray thread is up.
Frame == FrameOf(Elapsed, {FALSE}, FilledClicks(QuickUiEvents(TypedNotes)), {TRUE})

\* The wall clock shows another day (midnight, or the user sets the clock).
SetClockTo(days) ==
    \E d \in days :
        /\ running
        /\ today' = d
        /\ frameLog' = <<>>
        /\ frameIn' = NoFrame
        /\ UNCHANGED <<db, background, allow_close, ignore_close_frames, tray_rx,
                       selected_date, note_input, notifications,
                       next_boundary_check, store, nextId, running, close_sent,
                       enqueued, deleted, maxWritten, dropped, sincePass,
                       unlisted, goneTold, clVars, sevVars, mainVars, trayVars>>

SetClock == SetClockTo(Days \ {today})

\* ------------------------------------------------------------ main
\* The settings file: absent, or holding a text.
NoFile == [exists |-> FALSE, text |-> <<>>]
File(text) == [exists |-> TRUE, text |-> text]

\* The texts load_setting reads as true.
TrueTexts ==
    {<<"1">>, <<"t", "r", "u", "e">>, <<"T", "r", "u", "e">>,
     <<"T", "R", "U", "E">>}

\* settings::load_setting: Ok(false) without a file, Err when reading fails,
\* else Ok(whether the trimmed text is one of the true texts).
load_setting(file, read_fails) ==
    IF ~file.exists THEN [ok |-> TRUE, value |-> FALSE]
    ELSE IF read_fails THEN [ok |-> FALSE, value |-> FALSE]
    ELSE [ok |-> TRUE, value |-> Trim(file.text) \in TrueTexts]

\* autostart::set_enabled: the Run value is written or deleted; when the
\* registry call fails the value stays as it is.
set_enabled(enabled, value, fails) ==
    IF fails THEN [ok |-> FALSE, entry |-> value]
    ELSE [ok |-> TRUE, entry |-> enabled]

is_background_mode(a) == a.background \/ a.autostart

is_autostart_ignored(a) == FALSE

is_autostart_launch(a) == a.autostart

\* One call of main(): op is "load_setting", "spawn_tray", "set_enabled",
\* "return" (main.rs:47) or "run_native".
MainEvent(op, arg, ok) == [op |-> op, arg |-> arg, ok |-> ok]

\* main() up to its early return or its call of run_native.
main(a, file, value, read_fails, registry_fails) ==
    LET loaded == load_setting(file, read_fails)
        start == IF loaded.ok THEN loaded.value ELSE FALSE
        bg == is_background_mode(a)
        autostart_launch == is_autostart_launch(a)
        sync == set_enabled(start, value, registry_fails)
        stale == autostart_launch /\ ~start
    IN  [system_start |-> start,
         background |-> bg,
         entry |-> sync.entry,
         pc |-> IF stale THEN "returned" ELSE "app",
         log |-> <<MainEvent("load_setting", FALSE, loaded.ok),
                   MainEvent("spawn_tray", FALSE, TRUE),
                   MainEvent("set_enabled", start, sync.ok),
                   MainEvent(IF stale THEN "return" ELSE "run_native",
                             FALSE, TRUE)>>]

\* main() is not looked at: the process runs the application (or, in the
\* harnesses, nothing), started without --autostart.
MainIdle ==
    /\ pc = (IF running THEN "app" ELSE "off")
    /\ args = [autostart |-> FALSE, background |-> background]
    /\ saved = NoFile
    /\ entry = FALSE
    /\ system_start = FALSE
    /\ mainLog = <<>>

\* The tray thread is not looked at.
TrayIdle ==
    /\ NOTIFY_QUEUE = <<>>
    /\ TRAY_HWND = 0
    /\ trayMsgs = 0
    /\ trayPc = "off"
    /\ uiPc = "idle"
    /\ accepted = 0
    /\ shown = <<>>
    /\ missed = 0

\* ------------------------------------------------------------ initial state
\* The table the process finds: empty, or one reminder of an earlier run that
\* no detector pass has announced yet.
InitStores ==
    {<<>>,
     [i \in {1} |-> [date |-> FormatDate(EarlierDue), note |-> <<"a">>,
                     notified_level |-> 0]]}

\* SilliReminder::new on the given table: db is None when get_db failed.
AppStart(stores) ==
    /\ db \in BOOLEAN
    /\ background \in BOOLEAN
    /\ allow_close = FALSE
    /\ ignore_close_frames = 0
    /\ tray_rx = <<>>
    /\ today = StartDay
    /\ selected_date = StartDay
    /\ note_input = <<>>
    /\ notifications = <<>>
    /\ next_boundary_check = 0
    /\ store \in stores
    /\ nextId = Cardinality(DOMAIN store) + 1
    /\ running = TRUE
    /\ close_sent = FALSE
    /\ frameLog = <<>>
    /\ enqueued = {}
    /\ deleted = {}
    /\ maxWritten = [i \in 1..MaxId |-> 0]
    /\ dropped = {}
    /\ frameIn = NoFrame
    /\ sincePass = NoPass
    /\ unlisted = {}
    /\ goneTold = {}

AppInit == AppStart(InitStores)

ClIdle == clToday = 0 /\ clDue = 0 /\ clLevel = -1 /\ clColor = "-"

SevIdle == sevLevel = 0 /\ sevKind = "-"

Init == AppInit /\ ClIdle /\ SevIdle /\ MainIdle /\ TrayIdle

Next == Frame \/ SetClock

Spec == Init /\ [][Next]_vars

\* The table holds one reminder whose notified_level column was set by
\* something else than this program, to a value in or out of 0..3.
StoredLevels == (0 - MaxId)..(MaxLevel + MaxId)
ClampStores ==
    {[i \in {1} |-> [date |-> FormatDate(EarlierDue), note |-> <<"a">>,
                     notified_level |-> l]] : l \in StoredLevels}

\* A frame in which the user does nothing.
FrameIdle == FrameOf(Elapsed, {FALSE}, {NoUi}, {TRUE})

ClampInit == AppStart(ClampStores) /\ ClIdle /\ SevIdle /\ MainIdle /\ TrayIdle

SpecClamp == ClampInit /\ [][FrameIdle \/ SetClock]_vars

\* The scenario: a reminder due DueAhead days after the start day, left at
\* level 0 by an earlier run or added by the user after picking that date;
\* the days go by: the start day, the due day, the day after.
ScenarioDue == StartDay + DueAhead
ScenarioDays == {StartDay, ScenarioDue, ScenarioDue + 1}
ScenarioStores ==
    {<<>>,
     [i \in {1} |-> [date |-> FormatDate(ScenarioDue), note |-> <<"a">>,
                     notified_level |-> 0]]}
ScenarioUi ==
    {e \in UiEvents(TypedNotes, {ScenarioDue}) :
        \/ e.kind \in {"none", "pick"}
        \/ e.kind = "add" /\ e.typed /\ selected_date = ScenarioDue}

FrameScenario == FrameOf(Elapsed, {FALSE}, ScenarioUi, {TRUE})

DayGoesBy == SetClockTo({d \in ScenarioDays : d > today})

ScenarioInit == AppStart(ScenarioStores) /\ ClIdle /\ SevIdle /\ MainIdle /\ TrayIdle

SpecScenario == ScenarioInit /\ [][FrameScenario \/ DayGoesBy]_vars

\* The tray thread sends Open (icon or menu) or Exit (menu) over the channel.
TraySend ==
    \E cmd \in {"Open", "Exit"} :
        /\ running
        /\ Len(tray_rx) < MaxCommands
        /\ tray_rx' = Append(tray_rx, cmd)
        /\ frameLog' = <<>>
        /\ frameIn' = NoFrame
        /\ UNCHANGED <<db, background, allow_close, ignore_close_frames,
                       selected_date, note_input, notifications,
                       next_boundary_check, store, nextId, today, running,
                       close_sent, enqueued, deleted, maxWritten, dropped,
                       sincePass, unlisted, goneTold, clVars, sevVars, mainVars,
                       trayVars>>

\* A frame in which the viewport reports a close request or not, the table
\* being empty and the user leaving the widgets alone.
FrameWindow == FrameOf(Elapsed, BOOLEAN, {NoUi}, {TRUE})

WindowInit == AppStart({<<>>}) /\ ClIdle /\ SevIdle /\ MainIdle /\ TrayIdle

SpecWindow == WindowInit /\ [][FrameWindow \/ TraySend]_vars

\* What the user may leave in the note field: nothing, white space only, a
\* text, a text with white space around it.
NoteTexts == {<<>>, <<" ">>, <<"\t", " ">>, <<"a">>, <<" ", "a", "\t">>}

\* A frame in which the user types any of these, clicks add or deletes a row.
FrameNotes == FrameOf(Elapsed, {FALSE}, UiEvents(NoteTexts, {}), {TRUE})

NotesInit == AppStart({<<>>}) /\ ClIdle /\ SevIdle /\ MainIdle /\ TrayIdle

SpecNotes == NotesInit /\ [][FrameNotes]_vars

\* Frames that follow each other at once, half a foreground interval, a
\* foreground interval or a background interval apart, with or without a
\* close request, while the tray thread sends commands.
CadenceElapsed == {0, ForegroundSecs \div 2, ForegroundSecs, BackgroundSecs}

FrameCadence == FrameOf(CadenceElapsed, BOOLEAN, {NoUi}, {TRUE})

CadenceInit == AppStart({<<>>}) /\ ClIdle /\ SevIdle /\ MainIdle /\ TrayIdle

SpecCadence == CadenceInit /\ [][FrameCadence \/ TraySend]_vars

\* Frames with the tray thread's queue there or not, while the user adds
\* reminders and deletes none.
FrameSink ==
    FrameOf(Elapsed, {FALSE},
            {e \in FilledClicks(QuickUiEvents(TypedNotes)) : e.kind # "delete"},
            BOOLEAN)

SpecSink == Init /\ [][FrameSink \/ SetClock]_vars

\* The days go by: the wall clock shows a later day.
DayBreak == SetClockTo({d \in Days : d > today})

\* A frame delivered a background interval after the one before, in which no
\* store call fails and the tray thread is up.  In the tray update() asks for
\* the next frame within 1 s (request_repaint_after), so frames keep coming
\* and one of them is past the time gate.
GoodPass ==
    Update(BackgroundSecs, FALSE, NoUi,
           [list_fails |-> FALSE, write_fails |-> {}, sink_up |-> TRUE],
           [ui_list_fails |-> FALSE, ui_write_fails |-> FALSE])

\* The table an earlier run left: a reminder due soon and possibly one due
\* later, each announced up to some level or not at all.
LaterDue == MaxDay + 4
LiveStores ==
    {[i \in {1} |-> [date |-> FormatDate(EarlierDue), note |-> <<"a">>,
                     notified_level |-> l]] : l \in 0..MaxLevel}
    \cup {[i \in {1, 2} |->
              [date |-> FormatDate(IF i = 1 THEN EarlierDue ELSE LaterDue),
               note |-> <<"a">>,
               notified_level |-> IF i = 1 THEN l ELSE k]] :
              l \in 0..MaxLevel, k \in {0, 1}}

LiveInit == AppStart(LiveStores) /\ ClIdle /\ SevIdle /\ MainIdle /\ TrayIdle

\* Frames keep being delivered while the days go by; nobody touches the window.
SpecLive == LiveInit /\ [][FrameIdle \/ DayBreak]_vars /\ WF_vars(GoodPass)

\* Frames at once, half a foreground interval, a foreground interval or a
\* background interval apart, over a table that may hold a due reminder,
\* while the days change; nobody touches the window.
FrameRetry == FrameOf(CadenceElapsed, {FALSE}, {NoUi}, {TRUE})

SpecRetry == Init /\ [][FrameRetry \/ SetClock]_vars

\* ------------------------------------------------------------ launching
\* The arguments of a launch, and what the settings file may hold.
Args == [autostart : BOOLEAN, background : BOOLEAN]
SettingsTexts == {<<"0">>, <<"1">>, <<"1", " ">>, <<"t", "r", "u", "e">>}
SettingsFiles == {NoFile} \cup {File(t) : t \in SettingsTexts}

\* Before the process is started: no application object; the table on disk
\* holds nothing or a reminder that is due.
MainInit ==
    /\ db = FALSE
    /\ background = FALSE
    /\ allow_close = FALSE
    /\ ignore_close_frames = 0
    /\ tray_rx = <<>>
    /\ today = StartDay
    /\ selected_date = StartDay
    /\ note_input = <<>>
    /\ notifications = <<>>
    /\ next_boundary_check = 0
    /\ store \in InitStores
    /\ nextId = Cardinality(DOMAIN store) + 1
    /\ running = FALSE
    /\ close_sent = FALSE
    /\ frameLog = <<>>
    /\ enqueued = {}
    /\ deleted = {}
    /\ maxWritten = [i \in 1..MaxId |-> 0]
    /\ dropped = {}
    /\ frameIn = NoFrame
    /\ sincePass = NoPass
    /\ unlisted = {}
    /\ goneTold = {}
    /\ ClIdle
    /\ SevIdle
    /\ pc = "off"
    /\ args = [autostart |-> FALSE, background |-> FALSE]
    /\ saved \in SettingsFiles
    /\ entry \in BOOLEAN
    /\ system_start = FALSE
    /\ mainLog = <<>>
    /\ TrayIdle

\* SilliReminder::new(system_start, background, tray_rx) inside run_native.
Construct(bg) ==
    /\ db' \in BOOLEAN
    /\ background' = bg
    /\ allow_close' = FALSE
    /\ ignore_close_frames' = 0
    /\ tray_rx' = <<>>
    /\ selected_date' = today
    /\ note_input' = <<>>
    /\ notifications' = <<>>
    /\ next_boundary_check' = 0
    /\ running' = TRUE
    /\ close_sent' = FALSE
    /\ UNCHANGED <<store, nextId, today, frameLog, enqueued, deleted,
                   maxWritten, dropped, frameIn, sincePass, unlisted, goneTold>>

\* The process is started (again, after a main() that returned early).
Launch ==
    /\ pc \in {"off", "returned"}
    /\ \E a \in Args, read_fails \in (IF saved.exists THEN BOOLEAN ELSE {FALSE}),
          registry_fails \in BOOLEAN :
           \E m \in {main(a, saved, entry, read_fails, registry_fails)} :
               /\ args' = a
               /\ system_start' = m.system_start
               /\ entry' = m.entry
               /\ mainLog' = m.log
               /\ pc' = m.pc
               /\ IF m.pc = "app" THEN Construct(m.background)
                                  ELSE UNCHANGED appVars
    /\ UNCHANGED <<saved, clVars, sevVars, trayVars>>

SpecMain == MainInit /\ [][Launch \/ FrameIdle]_vars

\* ------------------------------------------------------------ tray thread
\* tray/win32.rs: the UI thread produces notifications with
\* enqueue_notification, the tray thread consumes them in wnd_proc. The two
\* threads meet at the mutex of NOTIFY_QUEUE, at the atomic TRAY_HWND and at
\* the message queue of the tray window; a step is the code between two such
\* points. Notifications are numbered in the order they are pushed.
MaxNotifications == 3

restVars == <<appVars, clVars, sevVars, mainVars>>

\* The state spawn_tray leaves behind: NOTIFY_QUEUE set and empty, the tray
\* thread spawned and not yet run, TRAY_HWND still 0.
TrayInit ==
    /\ AppStart({<<>>}) /\ ClIdle /\ SevIdle /\ MainIdle
    /\ NOTIFY_QUEUE = <<>>
    /\ TRAY_HWND = 0
    /\ trayMsgs = 0
    /\ trayPc = "start"
    /\ uiPc = "idle"
    /\ accepted = 0
    /\ shown = <<>>
    /\ missed = 0

\* enqueue_notification up to the end of the locked block: push_back.
EnqueuePush ==
    /\ uiPc = "idle"
    /\ accepted < MaxNotifications
    /\ NOTIFY_QUEUE' = Append(NOTIFY_QUEUE, accepted + 1)
    /\ accepted' = accepted + 1
    /\ uiPc' = "pushed"
    /\ UNCHANGED <<TRAY_HWND, trayMsgs, trayPc, shown, missed, restVars>>

\* enqueue_notification after the locked block: TRAY_HWND.load, return when
\* it is 0, PostMessageW(WM_TRAY_NOTIFY) otherwise.
EnqueuePost ==
    /\ uiPc = "pushed"
    /\ IF TRAY_HWND = 0
       THEN missed' = missed + 1 /\ UNCHANGED trayMsgs
       ELSE trayMsgs' = trayMsgs + 1 /\ UNCHANGED missed
    /\ uiPc' = "idle"
    /\ UNCHANGED <<NOTIFY_QUEUE, TRAY_HWND, trayPc, accepted, shown, restVars>>

\* run_tray_loop: RegisterClassW and CreateWindowExW; the thread returns when
\* no window was created.
CreateWindow ==
    /\ trayPc = "start"
    /\ \E created \in BOOLEAN :
           trayPc' = IF created THEN "created" ELSE "ended"
    /\ UNCHANGED <<NOTIFY_QUEUE, TRAY_HWND, trayMsgs, uiPc, accepted, shown,
                   missed, restVars>>

\* run_tray_loop: TRAY_HWND.store, then the icon is added and the message
\* loop is entered.
StoreHwnd ==
    /\ trayPc = "created"
    /\ TRAY_HWND' = 1
    /\ trayPc' = "loop"
    /\ UNCHANGED <<NOTIFY_QUEUE, trayMsgs, uiPc, accepted, shown, missed,
                   restVars>>

\* The message loop: GetMessageW returns a posted WM_TRAY_NOTIFY and
\* DispatchMessageW enters wnd_proc; it blocks while nothing is posted.
GetMessage ==
    /\ trayPc = "loop"
    /\ trayMsgs > 0
    /\ trayMsgs' = trayMsgs - 1
    /\ trayPc' = "notify"
    /\ UNCHANGED <<NOTIFY_QUEUE, TRAY_HWND, uiPc, accepted, shown, missed,
                   restVars>>

\* (the handler with pop_back in the place of pop_front)
WndProcPopBack ==
    /\ trayPc = "notify"
    /\ IF NOTIFY_QUEUE = <<>>
       THEN UNCHANGED <<NOTIFY_QUEUE, shown>>
       ELSE /\ shown' = Append(shown, NOTIFY_QUEUE[Len(NOTIFY_QUEUE)])
            /\ NOTIFY_QUEUE' = SubSeq(NOTIFY_QUEUE, 1, Len(NOTIFY_QUEUE) - 1)
    /\ trayPc' = "loop"
    /\ UNCHANGED <<TRAY_HWND, trayMsgs, uiPc, accepted, missed, restVars>>

\* wnd_proc, WM_TRAY_NOTIFY: pop_front under the lock; the popped
\* notification, if any, is shown (balloon and message box).
WndProcNotify ==
    /\ trayPc = "notify"
    /\ IF NOTIFY_QUEUE = <<>>
       THEN UNCHANGED <<NOTIFY_QUEUE, shown>>
       ELSE /\ shown' = Append(shown, Head(NOTIFY_QUEUE))
            /\ NOTIFY_QUEUE' = Tail(NOTIFY_QUEUE)
    /\ trayPc' = "loop"
    /\ UNCHANGED <<TRAY_HWND, trayMsgs, uiPc, accepted, missed, restVars>>

\* The tray thread, from its start to its message loop.
TrayThread == CreateWindow \/ StoreHwnd \/ GetMessage \/ WndProcNotify

\* Both threads are scheduled: a call of enqueue_notification that has begun
\* runs to its end, and the tray thread keeps taking its steps; whether
\* another notification is produced is up to the application.
SpecTray == TrayInit /\ [][EnqueuePush \/ EnqueuePost \/ CreateWindow \/ StoreHwnd \/ GetMessage \/ WndProcNotify]_vars /\ WF_vars(EnqueuePost) /\ WF_vars(TrayThread)

\* ------------------------------------------------------------ classifier harness
\* The classifier applied to one pair of dates drawn from the span.
ClassifyDays == (0 - ClassifySpan)..ClassifySpan

\* The application part of the state while only the classifier is exercised.
AppIdle ==
    /\ db = FALSE
    /\ background = FALSE
    /\ allow_close = FALSE
    /\ ignore_close_frames = 0
    /\ tray_rx = <<>>
    /\ today = StartDay
    /\ selected_date = StartDay
    /\ note_input = <<>>
    /\ notifications = <<>>
    /\ next_boundary_check = 0
    /\ store = <<>>
    /\ nextId = 1
    /\ running = FALSE
    /\ close_sent = FALSE
    /\ frameLog = <<>>
    /\ enqueued = {}
    /\ deleted = {}
    /\ maxWritten = [i \in 1..MaxId |-> 0]
    /\ dropped = {}
    /\ frameIn = NoFrame
    /\ sincePass = NoPass
    /\ unlisted = {}
    /\ goneTold = {}

ClassifyInit ==
    /\ AppIdle
    /\ SevIdle
    /\ MainIdle /\ TrayIdle
    /\ clToday \in ClassifyDays
    /\ clDue \in ClassifyDays
    /\ clLevel = -1
    /\ clColor = "-"

\* let level = Self::urgency_level(today, date).
Classify ==
    /\ clLevel = -1
    /\ clLevel' = urgency_level(clToday, clDue)
    /\ UNCHANGED <<clToday, clDue, clColor, appVars, sevVars, mainVars, trayVars>>

SpecClassify == ClassifyInit /\ [][Classify]_vars

\* The classifier called again for the same due date on the same or a later
\* day, as the passes of later ticks do.
ClassifyLater ==
    /\ clLevel # -1
    /\ \E t \in ClassifyDays :
           /\ t >= clToday
           /\ clToday' = t
           /\ clLevel' = urgency_level(t, clDue)
    /\ UNCHANGED <<clDue, clColor, appVars, sevVars, mainVars, trayVars>>

SpecLater == ClassifyInit /\ [][Classify \/ ClassifyLater]_vars

\* ui_planed draws the row of the reminder: let reminder_color = ...
Paint ==
    /\ clColor = "-"
    /\ clColor' = reminder_color(clToday, clDue)
    /\ UNCHANGED <<clToday, clDue, clLevel, appVars, sevVars, mainVars, trayVars>>

SpecPaint == ClassifyInit /\ [][Classify \/ Paint]_vars

\* ------------------------------------------------------------ severity harness
\* The dispatcher run on a queue that holds one notification of any level a
\* u8 can hold; sevKind is the kind it hands to the sink.
SeverityInit ==
    /\ AppIdle
    /\ ClIdle
    /\ MainIdle /\ TrayIdle
    /\ sevLevel \in 0..U8Max
    /\ sevKind = "-"

DispatchOne ==
    /\ sevKind = "-"
    /\ sevKind' = dispatch_notifications_to_tray(
                      <<[id |-> 1, date |-> StartDay, note |-> <<"a">>,
                         level |-> sevLevel]>>, <<>>, TRUE).log[1].kind
    /\ UNCHANGED <<sevLevel, appVars, clVars, mainVars, trayVars>>

SpecSeverity == SeverityInit /\ [][DispatchOne]_vars

\* ------------------------------------------------------------ reading frameLog
\* The events of log with the given op, in order.
Only(log, op) == SelectSeq(log, LAMBDA e : e.op = op)

\* What an enq or notify event carries about its notification.
Item(e) == [id |-> e.id, date |-> e.date, note |-> e.note, level |-> e.level]
Items(log, op) == [i \in DOMAIN Only(log, op) |-> Item(Only(log, op)[i])]

\* The levels enqueued for id, in order.
EnqLevels(log, id) ==
    LET es == SelectSeq(log, LAMBDA e : e.op = "enq" /\ e.id = id)
    IN  [i \in DOMAIN es |-> es[i].level]

\* The levels from + 1, ..., to in ascending order.
Ascending(from, to) == [k \in 1..(to - from) |-> from + k]

\* The detector got past the time gate and the database check / listed the rows.
PassRan(log) == Events(log, "list") # {}
PassListed(log) == \E i \in Events(log, "list") : log[i].ok
Listed(log) == PassRows(log)

\* What the detector computes for a stored row.
Current(st, t, id) == urgency_level(t, ReadRow(st, id).date)
Previous(st, id) == Min(ReadRow(st, id).notified_level, 3)

\* ------------------------------------------------------------ claims

\* C1: urgency_level returns 3 when days_until = due - today is <= 1 (every
\* negative value included), 2 when it is 2 or 3, 1 when it is 4..7 and 0
\* when it is >= 8; the result is always one of 0, 1, 2, 3.
C1_Buckets ==
    clLevel # -1 =>
        LET days_until == clDue - clToday
        IN  /\ clLevel \in {0, 1, 2, 3}
            /\ clLevel = 3 <=> days_until <= 1
            /\ clLevel = 2 <=> days_until \in {2, 3}
            /\ clLevel = 1 <=> days_until \in {4, 5, 6, 7}
            /\ clLevel = 0 <=> days_until >= 8

\* C1 witness: a reminder 5 days overdue has been classified as level 3.
C1_Witness == clLevel = 3 /\ clDue - clToday = -5

\* C2 as claimed: in a pass, every listed reminder whose current level exceeds
\* its previous level gets exactly the levels previous+1..current enqueued, in
\* ascending order, and its persisted level becomes current.
C2_AsClaimed ==
    [][PassListed(frameLog') =>
        \A id \in Listed(frameLog') :
            Current(store, today, id) > Previous(store, id) =>
                /\ EnqLevels(frameLog', id)
                       = Ascending(Previous(store, id), Current(store, today, id))
                /\ id \in DOMAIN store' =>
                       store'[id].notified_level = Current(store, today, id)]_vars

\* C2 amended: the same levels are enqueued in the same order; the persisted
\* level becomes current when the write succeeds and keeps its value when the
\* write fails.
C2_NoSkip ==
    [][PassListed(frameLog') =>
        \A id \in Listed(frameLog') :
            Current(store, today, id) > Previous(store, id) =>
                /\ EnqLevels(frameLog', id)
                       = Ascending(Previous(store, id), Current(store, today, id))
                /\ id \in DOMAIN store' =>
                       store'[id].notified_level
                           = IF id \in WritesFailed(frameLog')
                             THEN store[id].notified_level
                             ELSE Current(store, today, id)]_vars

\* C2 witness: a pass has enqueued 1, 2, 3 for one reminder and stored level 3.
C2_Witness ==
    \E id \in DOMAIN store :
        /\ EnqLevels(frameLog, id) = <<1, 2, 3>>
        /\ id \in WritesOk(frameLog)
        /\ store[id].notified_level = 3

\* C3 as claimed: the detector run again right after a run, with no day change
\* and no insert in between, enqueues nothing.
C3_AsClaimed ==
    [][(PassRan(frameLog) /\ Inserted(frameLog) = {} /\ PassRan(frameLog'))
          => Enqueues(frameLog') = {}]_vars

\* C3 amended: the second run enqueues nothing provided the first run listed
\* the reminders and every write it attempted succeeded.
C3_Idempotent ==
    [][(/\ PassListed(frameLog)
        /\ WritesFailed(frameLog) = {}
        /\ Inserted(frameLog) = {}
        /\ PassRan(frameLog'))
          => Enqueues(frameLog') = {}]_vars

\* C3 witness: a pass has listed a reminder that is at level 3 and was
\* announced at level 3 by an earlier pass, and has enqueued nothing.
C3_Witness ==
    /\ PassListed(frameLog)
    /\ Enqueues(frameLog) = {} /\ WritesOk(frameLog) = {}
    /\ \E id \in Listed(frameLog) \cap DOMAIN store :
           /\ maxWritten[id] = 3
           /\ Current(store, today, id) = 3

\* C4 as claimed: no (reminder, level) pair is enqueued twice, whatever ticks,
\* inserts and deletes happen.
C4_AsClaimed ==
    [][/\ Enqueues(frameLog') \cap enqueued = {}
       /\ Cardinality(Enqueues(frameLog')) = Len(Only(frameLog', "enq"))]_vars

\* C4 amended: a pair is enqueued at most once per pass, and never again once
\* a write of that level or a higher one has succeeded for the reminder (it is
\* enqueued again only after the write that follows it failed).
C4_OncePersisted ==
    [][/\ \A e \in Enqueues(frameLog') \cap enqueued : maxWritten[e[1]] < e[2]
       /\ \A e \in Enqueues(frameLog') : maxWritten[e[1]] < e[2]
       /\ Cardinality(Enqueues(frameLog')) = Len(Only(frameLog', "enq"))]_vars

\* C4 witness: a pass has listed a reminder whose level 1 was enqueued and
\* persisted before, while it is due, and has enqueued nothing for it.
C4_Witness ==
    /\ PassListed(frameLog)
    /\ \E id \in Listed(frameLog) :
           /\ <<id, 1>> \in enqueued
           /\ maxWritten[id] >= 1
           /\ EnqLevels(frameLog, id) = <<>>

\* C5: over every step (a frame with or without a pass, with write failures,
\* or a clock change, also backwards) the stored notified_level of a reminder
\* that stays in the table does not decrease.
C5_Monotonic ==
    [][\A id \in DOMAIN store \cap DOMAIN store' :
           store'[id].notified_level >= store[id].notified_level]_vars

\* C5 witness: a pass has listed a reminder stored at level 3 on a day on
\* which its urgency level is lower.
C5_Witness ==
    /\ PassListed(frameLog)
    /\ \E id \in Listed(frameLog) \cap DOMAIN store :
           /\ store[id].notified_level = 3
           /\ Current(store, today, id) < 3

\* C6: between frames every reminder's stored level is the highest level a
\* pass has written successfully for it (0 if none), and a successful write in
\* a pass leaves max(previous, urgency_level(today, due)).
C6_HighWater ==
    /\ [](\A id \in DOMAIN store : store[id].notified_level = maxWritten[id])
    /\ [][\A id \in WritesOk(frameLog') \cap DOMAIN store' :
              store'[id].notified_level
                  = Max(Previous(store, id), Current(store, today, id))]_vars

\* C6 witness: two reminders are stored at different levels, both written.
C6_Witness ==
    \E a, b \in DOMAIN store :
        /\ store[a].notified_level = 3 /\ maxWritten[a] = 3
        /\ store[b].notified_level = 2 /\ maxWritten[b] = 2

\* C7: the sink is called once for each notification enqueued, in the order
\* of enqueueing and with the same content, and the queue is left empty.
C7_FifoOnce ==
    /\ notifications = <<>>
    /\ Items(frameLog, "notify") = Items(frameLog, "enq")

\* C7 witness: a frame has delivered the notifications of two reminders.
C7_Witness ==
    /\ Len(Only(frameLog, "notify")) >= 4
    /\ Cardinality({e[1] : e \in Enqueues(frameLog)}) = 2

\* C8: a pass lists and processes the reminders by due date, then identifier,
\* and enqueues all levels of one reminder, ascending, before any of the next.
C8_StoreOrder ==
    /\ \A k \in DOMAIN frameLog :
           frameLog[k].op \in {"list", "ui_list"} =>
               \A i, j \in DOMAIN frameLog[k].rows :
                   LET a == frameLog[k].rows[i]
                       b == frameLog[k].rows[j]
                   IN  (i < j /\ a \in DOMAIN store /\ b \in DOMAIN store) =>
                           \/ ReadRow(store, a).date < ReadRow(store, b).date
                           \/ /\ ReadRow(store, a).date = ReadRow(store, b).date
                              /\ a < b
    /\ LET q == Items(frameLog, "enq")
       IN  \A i, j \in DOMAIN q :
               i < j =>
                   \/ q[i].date < q[j].date
                   \/ q[i].date = q[j].date /\ q[i].id < q[j].id
                   \/ q[i].id = q[j].id /\ q[i].level < q[j].level

\* C8 witness: A (added later, due in 1 day) and B (due in 3 days), both
\* unannounced: one pass has enqueued A1, A2, A3, B1, B2.
C8_Witness ==
    \E a, b \in DOMAIN store :
        /\ a > b
        /\ ReadRow(store, a).date = today + 1
        /\ ReadRow(store, b).date = today + 3
        /\ [i \in DOMAIN Items(frameLog, "enq") |->
               <<Items(frameLog, "enq")[i].id, Items(frameLog, "enq")[i].level>>]
             = <<<<a, 1>>, <<a, 2>>, <<a, 3>>, <<b, 1>>, <<b, 2>>>>

\* The identifiers deleted before the most recent frame.
DeletedBefore == deleted \ Deleted(frameLog)

\* C9: a deleted reminder is in no later list_reminders result, and no
\* notification for it is enqueued or handed to the sink afterwards.
C9_DeletedSilent ==
    /\ deleted \cap DOMAIN store = {}
    /\ \A k \in DOMAIN frameLog :
           /\ Range(frameLog[k].rows) \cap DeletedBefore = {}
           /\ frameLog[k].op \in {"enq", "notify", "write"} =>
                  frameLog[k].id \notin DeletedBefore

\* C9 witness: after an announced reminder was deleted, a pass has announced
\* another one.
C9_Witness ==
    /\ DeletedBefore # {}
    /\ PassListed(frameLog)
    /\ Only(frameLog, "notify") # <<>>

\* C10: with db = None no frame lists reminders or writes a level, and nothing
\* is ever enqueued or delivered, in any frame of the run.
C10_Degraded ==
    ~db => /\ frameLog = <<>>
           /\ enqueued = {}
           /\ notifications = <<>>

\* C10 witness: without a database a frame has passed the time gate while the
\* table on disk holds a reminder that is due.
C10_Witness ==
    /\ ~db
    /\ next_boundary_check > 0
    /\ \E id \in DOMAIN store : Current(store, today, id) > Previous(store, id)

\* The levels handed to the sink for id, in order.
NotifyLevels(log, id) ==
    LET es == SelectSeq(log, LAMBDA e : e.op = "notify" /\ e.id = id)
    IN  [i \in DOMAIN es |-> es[i].level]

\* The reminders of a listed pass that crossed a boundary.
Crossed(st, t, log) == {j \in Listed(log) : Current(st, t, j) > Previous(st, j)}

\* C11: when set_reminder_notified_level fails for a reminder in a pass, the
\* levels enqueued for it are still handed to the sink in that frame, every
\* other reminder that crossed a boundary still gets its write attempt, the
\* stored level keeps its old value, and the pass of the directly following
\* frame (same day, rows listed) enqueues the same levels for it again.
C11_WriteFailure ==
    [][/\ \A id \in WritesFailed(frameLog') :
              /\ EnqLevels(frameLog', id)
                     = Ascending(Previous(store, id), Current(store, today, id))
              /\ NotifyLevels(frameLog', id) = EnqLevels(frameLog', id)
              /\ Crossed(store, today, frameLog')
                     = WritesOk(frameLog') \cup WritesFailed(frameLog')
              /\ id \in DOMAIN store' =>
                     store'[id].notified_level = store[id].notified_level
       /\ PassListed(frameLog') =>
              \A id \in WritesFailed(frameLog) \cap DOMAIN store :
                  /\ EnqLevels(frameLog', id) = EnqLevels(frameLog, id)
                  /\ EnqLevels(frameLog', id) # <<>>]_vars

\* C11 witness: in one pass the write failed for the first of two reminders
\* that crossed a boundary and succeeded for the second; the levels of both
\* were handed to the sink.
C11_Witness ==
    \E a \in WritesFailed(frameLog), b \in WritesOk(frameLog) :
        /\ Ids(list_reminders(store)) = <<a, b>>
        /\ NotifyLevels(frameLog, a) # <<>>
        /\ NotifyLevels(frameLog, b) # <<>>
        /\ store[a].notified_level = 0
        /\ store[b].notified_level > 0

\* C12 as claimed: a notification the sink drops is removed from the queue,
\* its reminder's stored level has advanced to its level at least, and no
\* later pass enqueues the pair again.
C12_AsClaimed ==
    [][/\ notifications' = <<>>
       /\ \A e \in Drops(frameLog') :
              e[1] \in DOMAIN store' => store'[e[1]].notified_level >= e[2]
       /\ Enqueues(frameLog') \cap dropped = {}]_vars

\* C12 amended: a notification the sink drops is handed over once and removed
\* from the queue like any other; if the write of its reminder's level
\* succeeded in that pass the stored level has advanced and no later pass
\* enqueues the pair again (after a failed write the next pass does).
C12_NoRetry ==
    [][/\ notifications' = <<>>
       /\ Items(frameLog', "notify") = Items(frameLog', "enq")
       /\ \A e \in Drops(frameLog') :
              (e[1] \in WritesOk(frameLog') /\ e[1] \in DOMAIN store') =>
                  store'[e[1]].notified_level >= e[2]
       /\ \A e \in Enqueues(frameLog') \cap dropped : maxWritten[e[1]] < e[2]]_vars

\* C12 witness: a notification was dropped in an earlier frame and its level
\* persisted; a pass has listed its reminder, still due, and enqueued nothing
\* for it.
C12_Witness ==
    \E e \in dropped \ Drops(frameLog) :
        /\ maxWritten[e[1]] >= e[2]
        /\ PassListed(frameLog)
        /\ e[1] \in Listed(frameLog)
        /\ EnqLevels(frameLog, e[1]) = <<>>
        /\ notifications = <<>>

\* A stored level brought into 0..3.
InRange(l) == IF l < 0 THEN 0 ELSE IF l > 3 THEN 3 ELSE l

\* C13: whatever integer the notified_level column holds, a pass that lists
\* returns the row, takes the value clamped into 0..3 as previous (enqueues
\* exactly the levels above it up to the current level), and writes only
\* levels in 0..3.
C13_Clamp ==
    [][PassListed(frameLog') =>
          /\ Listed(frameLog') = DOMAIN store
          /\ \A id \in DOMAIN store :
                 /\ EnqLevels(frameLog', id)
                        = Ascending(InRange(store[id].notified_level),
                                    Current(store, today, id))
                 /\ id \in WritesOk(frameLog') =>
                        store'[id].notified_level \in 0..3
          /\ \A k \in Events(frameLog', "write") : frameLog'[k].level \in 0..3
          /\ \A k \in Events(frameLog', "enq") : frameLog'[k].level \in 1..3]_vars

\* C13 witness: a pass has listed a reminder whose stored level is out of
\* range, and left it alone.
C13_Witness ==
    /\ PassListed(frameLog)
    /\ \E id \in Listed(frameLog) \cap DOMAIN store :
           /\ store[id].notified_level \notin 0..3
           /\ Events(frameLog, "write") = {}

\* C14: the severity handed to the sink is Info for level 1, Warning for
\* level 2 and Error for level 3 and for every other value of the level.
C14_Severity ==
    sevKind # "-" =>
        /\ sevLevel = 1 => sevKind = "Info"
        /\ sevLevel = 2 => sevKind = "Warning"
        /\ sevLevel \notin {1, 2} => sevKind = "Error"

\* C14 witness: a notification of a level outside 1..3 was dispatched.
C14_Witness == sevKind = "Error" /\ sevLevel = 0

\* The stored reminders of the scenario: due DueAhead days after the start day.
ScenarioIds(st) == {id \in DOMAIN st : ReadRow(st, id).date = ScenarioDue}

\* C15: for a reminder due DueAhead (10) days after the start day, stored at
\* level 0: a pass on the start day enqueues nothing and leaves level 0; a
\* pass on the due day whose write succeeds enqueues 1, 2, 3 in that order
\* and stores 3; a pass on the day after, with 3 stored, enqueues nothing.
C15_Scenario ==
    [][PassListed(frameLog') =>
          \A id \in ScenarioIds(store) :
              /\ (today = StartDay /\ store[id].notified_level = 0) =>
                     /\ EnqLevels(frameLog', id) = <<>>
                     /\ store'[id].notified_level = 0
              /\ (today = ScenarioDue /\ store[id].notified_level = 0
                                      /\ id \notin WritesFailed(frameLog')) =>
                     /\ EnqLevels(frameLog', id) = <<1, 2, 3>>
                     /\ store'[id].notified_level = 3
              /\ (today = ScenarioDue + 1 /\ store[id].notified_level = 3) =>
                     /\ EnqLevels(frameLog', id) = <<>>
                     /\ store'[id].notified_level = 3]_vars

\* C15 witness: the day after the due day a pass has listed the reminder,
\* announced at levels 1, 2, 3 before, and has enqueued nothing.
C15_Witness ==
    /\ today = ScenarioDue + 1
    /\ PassListed(frameLog)
    /\ Enqueues(frameLog) = {}
    /\ store = [i \in {1} |-> [date |-> FormatDate(ScenarioDue), note |-> <<"a">>,
                               notified_level |-> 3]]
    /\ enqueued = {<<1, 1>>, <<1, 2>>, <<1, 3>>}
    /\ maxWritten[1] = 3

\* background when the frame gets to the close handling: after the commands
\* of the channel.
BackgroundAfterCommands ==
    ApplyCommands([allow_close |-> allow_close, background |-> background,
                   ignore_close_frames |-> ignore_close_frames,
                   close_sent |-> close_sent], tray_rx).background

\* C16 as claimed: whenever a frame observes a close request while allow_close
\* is false, the request is cancelled and the app keeps running, minimized to
\* tray.
C16_AsClaimed ==
    [][(frameIn'.close_requested /\ ~allow_close') =>
          (running' /\ background')]_vars

\* C16, what the frame does: a close request observed with allow_close false
\* and background false is cancelled and the app keeps running; it is
\* minimized to tray unless ignore_close_frames is still counting.
C16_Intercept ==
    [][(frameIn'.close_requested /\ ~allow_close' /\ ~BackgroundAfterCommands) =>
          /\ running'
          /\ background' = (ignore_close_frames' = 0)]_vars

\* C16 witness: the close button was clicked in the window and the app went
\* to the tray.
C16_Witness ==
    /\ frameIn.close_requested
    /\ ~allow_close
    /\ running
    /\ background
    /\ ignore_close_frames = 0

\* C16, the failing case: a close request observed while the app is in the
\* tray ends the event loop although no Exit command was processed.
C16_ExitsFromTray ==
    [][(frameIn'.close_requested /\ ~allow_close' /\ BackgroundAfterCommands) =>
          ~running']_vars

\* The text in the note field when the frame's add button is handled.
FieldAtClick == IF frameIn'.ui.typed THEN frameIn'.ui.note ELSE note_input

Blank(text) == \A i \in DOMAIN text : text[i] \in {" ", "\t"}

\* C17: an add click with an empty or white-space-only note field calls
\* insert_reminder not at all and leaves the table's rows and the field as
\* they are; no call of insert_reminder gets a blank note; and the field is
\* changed by the program only by clearing it after an insert that succeeded.
C17_EmptyNote ==
    [][/\ (frameIn'.ui.kind = "add" /\ Blank(FieldAtClick)) =>
              /\ Events(frameLog', "insert") = {}
              /\ DOMAIN store' = DOMAIN store
              /\ nextId' = nextId
              /\ note_input' = FieldAtClick
       /\ \A k \in Events(frameLog', "insert") : ~Blank(frameLog'[k].note)
       /\ note_input' # FieldAtClick =>
              (note_input' = <<>> /\ Inserted(frameLog') # {})]_vars

\* C17 witness: with the database open, the add button was clicked on a
\* white-space-only note; nothing was inserted and the field still holds it.
C17_Witness ==
    /\ db /\ ~background
    /\ frameIn.ui.kind = "add"
    /\ note_input = <<"\t", " ">>
    /\ Events(frameLog, "insert") = {}
    /\ Events(frameLog, "ui_list") # {}
    /\ store = <<>>

\* C18: in every frame, each enqueueing of a level of a reminder comes before
\* the attempt to write that reminder's level (and there is such an attempt),
\* and every write attempt comes before the first hand-over to the sink.
C18_FrameOrder ==
    /\ \A i \in Events(frameLog, "enq") :
           \E j \in Events(frameLog, "write") :
               frameLog[j].id = frameLog[i].id /\ i < j
    /\ \A i \in Events(frameLog, "enq"), j \in Events(frameLog, "write") :
           frameLog[j].id = frameLog[i].id => i < j
    /\ \A j \in Events(frameLog, "write"), k \in Events(frameLog, "notify") : j < k

\* C18 witness: a frame in which two reminders were announced, the first at
\* more than one level: enqueue.., write, enqueue.., write, notify...
C18_Witness ==
    /\ Cardinality(Events(frameLog, "write")) = 2
    /\ Cardinality(Events(frameLog, "notify")) >= 3
    /\ frameLog[2].op = "enq" /\ frameLog[3].op = "enq"

\* C19: for a fixed due date, a call of urgency_level with the same or a later
\* today returns the same or a higher level than the call before.
C19_Monotone ==
    [][(clLevel # -1 /\ clToday' >= clToday /\ clDue' = clDue) =>
          clLevel' >= clLevel]_vars

\* C19 witness: the level of a reminder classified on the first day of the
\* span has been computed again on the last day, long after its due date.
C19_Witness ==
    /\ clLevel = 3
    /\ clToday = ClassifySpan
    /\ clDue = 0 - ClassifySpan

\* C20: the detector goes past its time gate only in a frame whose instant is
\* not before next_boundary_check; it then schedules the next check 60 s
\* later if background is set at that moment and 10 s later if not; a run
\* past the gate is at least 10 s after the one before; and a frame before
\* the scheduled instant leaves the schedule as it is, also when foreground
\* and background are switched.  (next_boundary_check is kept relative to
\* the instant of the most recent frame.)
C20_Cadence ==
    [][/\ PassRan(frameLog') => frameIn'.dt >= next_boundary_check
       /\ (frameIn'.frame /\ frameIn'.dt >= next_boundary_check) =>
              /\ next_boundary_check'
                     = (IF BackgroundAfterCommands THEN 60 ELSE 10)
              /\ sincePass = NoPass \/ sincePass + frameIn'.dt >= 10
              /\ sincePass' = 0
       /\ (frameIn'.frame /\ frameIn'.dt < next_boundary_check) =>
              /\ next_boundary_check' = next_boundary_check - frameIn'.dt
              /\ ~PassRan(frameLog')
       /\ ~frameIn'.frame => next_boundary_check' = next_boundary_check]_vars

\* C20 witness: the app has gone to the tray half way through a foreground
\* interval; the next check is still the one scheduled in the foreground.
C20_Witness ==
    /\ background
    /\ db
    /\ frameIn.close_requested
    /\ sincePass = ForegroundSecs \div 2
    /\ next_boundary_check = ForegroundSecs - sincePass

\* The levels a stored reminder has reached and its stored level has not.
Missing ==
    {e \in (1..MaxId) \X (1..MaxLevel) :
        /\ e[1] \in DOMAIN store
        /\ Previous(store, e[1]) < e[2]
        /\ e[2] <= Current(store, today, e[1])}

\* The <<id, level>> pairs handed to the sink and taken by it in log.
Delivered(log) ==
    {<<log[i].id, log[i].level>> : i \in {j \in Events(log, "notify") : log[j].ok}}

\* C21: every frame whose instant is past the time gate runs the detector and
\* leaves the queue dispatched, in the tray as in the window; a level a stored
\* reminder has reached and its stored level has not stays missing until a
\* frame enqueues it and hands it to the sink; and with frames kept coming and
\* store calls that succeed, again and again no level is missing: every
\* missing level is eventually announced.
C21_Live ==
    /\ [][(frameIn'.frame /\ db /\ frameIn'.dt >= next_boundary_check) =>
              /\ PassRan(frameLog')
              /\ notifications' = <<>>
              /\ Items(frameLog', "notify") = Items(frameLog', "enq")]_vars
    /\ [][\A e \in Missing \ Missing' :
              e \in Enqueues(frameLog') \cap Delivered(frameLog')]_vars
    /\ []<>(db => Missing = {})

\* C21 witness: in the tray, a pass has announced level 3 of a reminder that
\* an earlier pass had announced at levels 1 and 2 on an earlier day.
C21_Witness ==
    /\ background
    /\ today = MaxDay
    /\ EnqLevels(frameLog, 1) = <<3>>
    /\ {<<1, 1>>, <<1, 2>>, <<1, 3>>} \subseteq enqueued
    /\ NotifyLevels(frameLog, 1) = <<3>>
    /\ store[1].notified_level = 3

\* Whether the frame about to run drains an Open command from the channel.
OpenPending == "Open" \in Range(tray_rx)

\* ignore_close_frames over one step: an Open sets it to 30 and the frame's
\* decrement follows; otherwise it goes down by one per frame, down to 0;
\* no other step changes it.
Countdown ==
    /\ (frameIn'.frame /\ OpenPending) =>
           ignore_close_frames' = IgnoreCloseFrames - 1
    /\ (frameIn'.frame /\ ~OpenPending) =>
           ignore_close_frames' = Max(ignore_close_frames - 1, 0)
    /\ ~frameIn'.frame => ignore_close_frames' = ignore_close_frames

\* The window goes to the tray only on a close request seen with the counter at 0.
HidesOnlyAtZero ==
    (background' /\ ~background) =>
        (frameIn'.close_requested /\ ignore_close_frames' = 0)

SavedSetting == saved.exists /\ Trim(saved.text) \in TrueTexts

\* The events of the latest main() with the given op.
MainCalls(log, op) == {i \in DOMAIN log : log[i].op = op}

\* The launch under way in a step from a process that is not running.
Launching == pc \in {"off", "returned"}

\* A launch with --autostart while the saved setting is off returns from
\* main without an application object, and no frame ever runs afterwards:
\* no pass, no notification.
StaleLaunchReturns ==
    /\ [][(Launching /\ args'.autostart /\ ~SavedSetting) =>
              /\ pc' = "returned"
              /\ MainCalls(mainLog', "run_native") = {}
              /\ UNCHANGED appVars]_vars
    /\ [](pc = "returned" =>
              /\ ~running
              /\ frameLog = <<>>
              /\ enqueued = {}
              /\ notifications = <<>>)

\* In every launch set_enabled is called once, before main returns or calls
\* run_native.
SyncedFirst ==
    \A i \in MainCalls(mainLog', "set_enabled"),
       j \in MainCalls(mainLog', "return") \cup MainCalls(mainLog', "run_native") :
        /\ i < j
        /\ Cardinality(MainCalls(mainLog', "set_enabled")) = 1

ListFailed(log) == \E i \in Events(log, "list") : ~log[i].ok

\* C24: a frame in which the detector's list_reminders fails enqueues,
\* writes and delivers nothing, leaves the table and the queue as they are
\* and the app running, and has set next_boundary_check a full interval
\* ahead (60 s in the tray, 10 s in the window); the frame that follows
\* runs no pass unless that interval has gone by, and so does every frame:
\* a pass is attempted an interval or more after the previous run past
\* the gate.
C24_ListFailure ==
    [][/\ ListFailed(frameLog') =>
              /\ Only(frameLog', "list") = <<ListEvent("list", FALSE, <<>>)>>
              /\ Events(frameLog', "enq") = {}
              /\ Events(frameLog', "write") = {}
              /\ Events(frameLog', "notify") = {}
              /\ store' = store
              /\ notifications' = notifications
              /\ enqueued' = enqueued
              /\ running'
              /\ next_boundary_check' = CheckInterval(background)
              /\ sincePass' = 0
       /\ (ListFailed(frameLog) /\ frameIn'.frame
              /\ frameIn'.dt < CheckInterval(background)) =>
              /\ ~PassRan(frameLog')
              /\ next_boundary_check' = CheckInterval(background) - frameIn'.dt
       /\ PassRan(frameLog') =>
              \/ sincePass = NoPass
              \/ sincePass + frameIn'.dt >= CheckInterval(background)]_vars

\* C24 witness: half a foreground interval after a pass whose list_reminders
\* failed a frame has run no pass; the due reminder is still unannounced.
C24_Witness ==
    /\ db /\ ~background
    /\ Crossing # {}
    /\ enqueued = {}
    /\ frameIn.frame
    /\ ~PassRan(frameLog)
    /\ sincePass = ForegroundSecs \div 2
    /\ next_boundary_check = ForegroundSecs - sincePass

\* C25: at the end of every frame the queue is empty; each notification the
\* frame enqueued was handed to the sink later in the same frame, and each
\* one handed to the sink was enqueued earlier in the same frame, for a
\* reminder the frame's own pass listed: none is carried over from a frame
\* before, whatever the user inserts or deletes.
C25_QueueEmpty ==
    /\ notifications = <<>>
    /\ \A j \in Events(frameLog, "enq") :
           \E k \in Events(frameLog, "notify") :
               j < k /\ Item(frameLog[k]) = Item(frameLog[j])
    /\ \A k \in Events(frameLog, "notify") :
           /\ \E j \in Events(frameLog, "enq") :
                  j < k /\ Item(frameLog[j]) = Item(frameLog[k])
           /\ frameLog[k].id \in Listed(frameLog)
    /\ Len(Only(frameLog, "notify")) = Len(Only(frameLog, "enq"))

\* C25 witness: in one frame a reminder was announced at two levels or more
\* and then deleted by the user; the queue is empty.
C25_Witness ==
    /\ notifications = <<>>
    /\ \E id \in Deleted(frameLog) : Len(NotifyLevels(frameLog, id)) >= 2

\* The identifiers the frame of log attempted a write of notified_level for.
WriteAttempts(log) == {log[i].id : i \in Events(log, "write")}

\* C26: over a frame in which the user does nothing, the table keeps its
\* rows, and every row its date and note; notified_level changes only for a
\* reminder whose current level exceeds its previous level, to the current
\* level, by a successful write; and no write is attempted for a reminder
\* with current <= previous, none at all for a reminder at level 0.
C26_PassEffect ==
    [][frameIn'.frame =>
          /\ DOMAIN store' = DOMAIN store
          /\ nextId' = nextId
          /\ \A id \in DOMAIN store :
                 /\ store'[id].date = store[id].date
                 /\ store'[id].note = store[id].note
                 /\ store'[id].notified_level # store[id].notified_level =>
                        /\ Current(store, today, id) > Previous(store, id)
                        /\ store'[id].notified_level = Current(store, today, id)
                        /\ id \in WritesOk(frameLog')
                 /\ id \in WriteAttempts(frameLog') =>
                        Current(store, today, id) > Previous(store, id)
                 /\ Current(store, today, id) = 0 =>
                        id \notin WriteAttempts(frameLog')
          /\ WriteAttempts(frameLog') \subseteq DOMAIN store]_vars

\* C26 witness: a pass has listed two reminders, written the level of the
\* one that crossed a boundary and left the one at level 0 alone.
C26_Witness ==
    /\ PassListed(frameLog)
    /\ Listed(frameLog) = {1, 2}
    /\ WriteAttempts(frameLog) = {1}
    /\ store[1].notified_level = Current(store, today, 1)
    /\ Current(store, today, 2) = 0
    /\ store[2].notified_level = 0

\* ------------------------------------------------------------ C27
\* The messages posted so far: one for every call of enqueue_notification
\* that has ended and found the tray window.
Posted == accepted - missed - (IF uiPc = "pushed" THEN 1 ELSE 0)

\* The notifications 1..n in the order they were accepted.
InOrder(lo, hi) == [i \in 1..(hi - lo + 1) |-> lo + i - 1]

\* Shown in FIFO order, each once, and nothing leaves the queue unshown.
FifoOrder ==
    /\ shown = InOrder(1, Len(shown))
    /\ NOTIFY_QUEUE = InOrder(Len(shown) + 1, accepted)

\* C27 as stated: the notifications are shown in the order they were
\* accepted, and while the tray thread has not ended every accepted
\* notification is eventually shown, whatever the interleaving of
\* enqueue_notification with the store of TRAY_HWND.
C27_AsClaimed ==
    /\ []FifoOrder
    /\ \A n \in 1..MaxNotifications :
           (accepted >= n) ~> (Len(shown) >= n \/ trayPc = "ended")

\* C27, what the code gives: the notifications are shown in the order they
\* were accepted; every message posted pops and shows exactly one, so the
\* queue holds one notification for every message still to be handled plus
\* one for every call that found TRAY_HWND still 0, and the number shown
\* eventually reaches the number of messages posted.
C27_Delivery ==
    /\ []FifoOrder
    /\ [](Len(NOTIFY_QUEUE) = trayMsgs + missed
                              + (IF uiPc = "pushed" THEN 1 ELSE 0)
                              + (IF trayPc = "notify" THEN 1 ELSE 0))
    /\ \A n \in 1..MaxNotifications :
           (Posted >= n) ~> (Len(shown) >= n \/ trayPc = "ended")

\* Every notification was accepted after the window was stored and all of
\* them have been shown.
C27_Witness ==
    /\ accepted = MaxNotifications
    /\ missed = 0
    /\ shown = InOrder(1, MaxNotifications)

\* A notification accepted before the window was stored is left in the
\* queue with the message loop running and nothing posted.
C27_Stranded ==
    /\ trayPc = "loop"
    /\ uiPc = "idle"
    /\ trayMsgs = 0
    /\ missed > 0
    /\ Len(NOTIFY_QUEUE) = missed

\* ------------------------------------------------------------ C28
\* C28: an inserted reminder gets an identifier never used before, above all
\* used ones, and notified_level 0, which it keeps until a detector pass
\* lists it; the first pass that lists it, with its urgency level k > 0,
\* enqueues levels 1..k for it in that order, whatever was announced and
\* deleted before.
C28_FreshStart ==
    /\ [](\A id \in unlisted :
              id \in DOMAIN store /\ store[id].notified_level = 0)
    /\ [][/\ \A id \in Inserted(frameLog') :
                 /\ \A j \in DOMAIN store \cup deleted : j < id
                 /\ id \in DOMAIN store'
                 /\ store'[id].notified_level = 0
                 /\ id \in unlisted'
          /\ \A id \in unlisted \cap Listed(frameLog') :
                 Current(store, today, id) > 0 =>
                     EnqLevels(frameLog', id)
                         = Ascending(0, Current(store, today, id))]_vars

\* C28 witness: a pass has enqueued levels 1, 2, 3 for a reminder that has
\* the date and note of one announced and deleted before.
C28_Witness ==
    \E id \in DOMAIN store :
        /\ id \in Listed(frameLog)
        /\ EnqLevels(frameLog, id) = <<1, 2, 3>>
        /\ <<store[id].date, store[id].note>> \in goneTold
        /\ deleted # {}

\* ------------------------------------------------------------ C29
\* The frame's channel ends with an Exit command: no Open is processed after
\* the Exit.
ExitLast == tray_rx # <<>> /\ tray_rx[Len(tray_rx)] = "Exit"

C30_ColourAgrees ==
    (clLevel # -1 /\ clColor # "-") =>
        /\ clColor = "text_color" <=> clLevel = 0
        /\ clColor = "hyperlink_color" <=> clLevel = 1
        /\ clColor = "warn_fg_color" <=> clLevel = 2
        /\ clColor = "error_fg_color" <=> clLevel = 3

\* C30 witness: a reminder due in 7 days, the last day of level 1, is drawn
\* in the hyperlink colour.
C30_Witness ==
    /\ clDue - clToday = 7
    /\ clLevel = 1
    /\ clColor = "hyperlink_color"
====
